---- MODULE Spec2Model ----
(***************************************************************************)
(* A model of the RESP wire parser of serde_resp (src/src/parser.rs).      *)
(*                                                                         *)
(* parse is a pure function of a byte buffer.  It is modelled as the       *)
(* operator parse, built from operators that follow the nom combinators    *)
(* the source composes (streaming tag, take_until, crlf, tuple, preceded,  *)
(* map, map_res, alt).  The state machine around it is the caller of the   *)
(* parser: it holds a buffer, calls parse on it, and retries with more     *)
(* bytes appended.                                                         *)
(*                                                                         *)
(* Bytes are the numbers 0..255.  An i64 does not fit TLC's integers, so   *)
(* an integer is a sign and a magnitude of decimal digits, most            *)
(* significant first, without leading zeros (zero is the empty magnitude). *)
(***************************************************************************)
EXTENDS Integers, Sequences, FiniteSets, TLC

(***************************************************************************)
(* Bounds of the model.                                                    *)
(***************************************************************************)
\* How many chunks the caller appends to one buffer.
MaxFeeds == 5
\* How many chunks the caller still appends once parse has given a final answer.
MaxTrail == 2

(***************************************************************************)
(* Bytes.                                                                  *)
(***************************************************************************)
CR == <<13>>
LF == <<10>>
CRLF == <<13, 10>>
PLUS == <<43>>
MINUS == <<45>>
COLON == <<58>>
DOLLAR == <<36>>
STAR == <<42>>

Drop(s, n) == SubSeq(s, n + 1, Len(s))
Take(s, n) == SubSeq(s, 1, n)

(***************************************************************************)
(* Integers wider than TLC's: decimal magnitudes.                          *)
(***************************************************************************)
RECURSIVE StripZeros(_)
StripZeros(d) ==
  IF d # <<>> /\ d[1] = 0 THEN StripZeros(Tail(d)) ELSE d

\* -1, 0 or 1 as a < b, a = b, a > b; both without leading zeros.
CmpMag(a, b) ==
  IF Len(a) # Len(b) THEN (IF Len(a) < Len(b) THEN -1 ELSE 1)
  ELSE IF a = b THEN 0
  ELSE LET i == CHOOSE k \in 1..Len(a) :
                  a[k] # b[k] /\ \A j \in 1..(k - 1) : a[j] = b[j]
       IN  IF a[i] < b[i] THEN -1 ELSE 1

\* a - b for a >= b, digit by digit from the least significant one.
RECURSIVE SubFrom(_, _, _, _, _)
SubFrom(a, b, i, borrow, acc) ==
  IF i >= Len(a) THEN StripZeros(acc)
  ELSE LET da == a[Len(a) - i]
           db == IF i < Len(b) THEN b[Len(b) - i] ELSE 0
           x  == da - db - borrow
       IN  IF x < 0 THEN SubFrom(a, b, i + 1, 1, <<x + 10>> \o acc)
                    ELSE SubFrom(a, b, i + 1, 0, <<x>> \o acc)

SubMag(a, b) == SubFrom(a, b, 0, 0, <<>>)

RECURSIVE Reduce(_, _)
Reduce(r, m) == IF CmpMag(r, m) >= 0 THEN Reduce(SubMag(r, m), m) ELSE r

\* a mod m by long division.
RECURSIVE ModFrom(_, _, _, _)
ModFrom(a, m, i, r) ==
  IF i > Len(a) THEN r
  ELSE ModFrom(a, m, i + 1, Reduce(StripZeros(r \o <<a[i]>>), m))

ModMag(a, m) == ModFrom(a, m, 1, <<>>)

RECURSIVE NatMag(_)
NatMag(n) == IF n = 0 THEN <<>> ELSE NatMag(n \div 10) \o <<n % 10>>

Int64(neg, mag) == [neg |-> neg /\ mag # <<>>, mag |-> mag]

\* a < b on signed values
Less(a, b) ==
  IF a.neg # b.neg THEN a.neg
  ELSE IF a.neg THEN CmpMag(a.mag, b.mag) > 0
  ELSE CmpMag(a.mag, b.mag) < 0

\* i64::MAX and the magnitude of i64::MIN
I64MaxMag == <<9,2,2,3,3,7,2,0,3,6,8,5,4,7,7,5,8,0,7>>
I64MinMag == <<9,2,2,3,3,7,2,0,3,6,8,5,4,7,7,5,8,0,8>>
\* 2^32
TwoPow32 == <<4,2,9,4,9,6,7,2,9,6>>

(***************************************************************************)
(* Outcomes of a parser: nom's IResult, and a panic of the process.        *)
(***************************************************************************)
\* Needed::Unknown, which is what Needed::new(0) gives; Needed::Size(n) is n.
Unknown == 0

Done(rest, value, printed) ==
  [kind |-> "Ok", rest |-> rest, value |-> value, printed |-> printed]
Incomplete(needed, printed) ==
  [kind |-> "Incomplete", needed |-> needed, printed |-> printed]
Failed(err, printed) ==
  [kind |-> "Error", err |-> err, printed |-> printed]
Panicked(msg, printed) ==
  [kind |-> "Panic", msg |-> msg, printed |-> printed]

(***************************************************************************)
(* enum Error and its nom traits.                                          *)
(***************************************************************************)
Nom(kind, input) == [variant |-> "Nom", kind |-> kind, input |-> input]
BulkTooLarge(len, max) == [variant |-> "BulkTooLarge", len |-> len, max |-> max]

from_error_kind(input, kind) == Nom(kind, input)
append(input, kind, other) == other
\* ParseError::or is not overridden: nom's default keeps the later error.
or(self, other) == other
from_external_error(input, kind, e) == Nom(kind, input)

BULK_STRING_MAX == Int64(FALSE, <<4,0,9,6,0,0,0,0,0,0>>)
NULL_SENTINEL == Int64(TRUE, <<1>>)

(***************************************************************************)
(* enum Type                                                               *)
(***************************************************************************)
Simple(u) == [t |-> "Simple", data |-> u]
ErrorMsg(s) == [t |-> "Error", data |-> s]
Integer(i) == [t |-> "Integer", i |-> i]
Bulk(len, data) == [t |-> "Bulk", len |-> len, data |-> data]
Array(data) == [t |-> "Array", elems |-> data]
Null == [t |-> "Null"]

(***************************************************************************)
(* str::from_utf8 and str::parse::<i64>                                    *)
(***************************************************************************)
Cont(s, i) == i <= Len(s) /\ s[i] \in 128..191
In(s, i, lo, hi) == i <= Len(s) /\ s[i] \in lo..hi

RECURSIVE Utf8From(_, _)
Utf8From(s, i) ==
  IF i > Len(s) THEN TRUE
  ELSE LET b == s[i] IN
    IF b <= 127 THEN Utf8From(s, i + 1)
    ELSE IF b \in 194..223 THEN Cont(s, i + 1) /\ Utf8From(s, i + 2)
    ELSE IF b = 224 THEN In(s, i + 1, 160, 191) /\ Cont(s, i + 2) /\ Utf8From(s, i + 3)
    ELSE IF b = 237 THEN In(s, i + 1, 128, 159) /\ Cont(s, i + 2) /\ Utf8From(s, i + 3)
    ELSE IF b \in 225..239 THEN Cont(s, i + 1) /\ Cont(s, i + 2) /\ Utf8From(s, i + 3)
    ELSE IF b = 240 THEN In(s, i + 1, 144, 191) /\ Cont(s, i + 2) /\ Cont(s, i + 3)
                         /\ Utf8From(s, i + 4)
    ELSE IF b \in 241..243 THEN Cont(s, i + 1) /\ Cont(s, i + 2) /\ Cont(s, i + 3)
                                /\ Utf8From(s, i + 4)
    ELSE IF b = 244 THEN In(s, i + 1, 128, 143) /\ Cont(s, i + 2) /\ Cont(s, i + 3)
                         /\ Utf8From(s, i + 4)
    ELSE FALSE

to_str(input) ==
  IF Utf8From(input, 1) THEN [ok |-> TRUE, v |-> input]
  ELSE [ok |-> FALSE, err |-> [variant |-> "InvalidStr"]]

IsDigit(b) == b \in 48..57

\* to_i64 with the magnitude checked against i64::MAX whatever the sign.
to_i64_magnitude_first(input) ==
  LET bad == [ok |-> FALSE, err |-> [variant |-> "InvalidInteger"]]
      signed == input # <<>> /\ input[1] \in {43, 45}
      digits == IF signed THEN Tail(input) ELSE input
      neg == signed /\ input[1] = 45
      mag == StripZeros([k \in 1..Len(digits) |-> digits[k] - 48])
  IN  IF digits = <<>> THEN bad
      ELSE IF \E k \in 1..Len(digits) : ~IsDigit(digits[k]) THEN bad
      ELSE IF CmpMag(mag, I64MaxMag) > 0 THEN bad
      ELSE [ok |-> TRUE, v |-> Int64(neg, mag)]

to_i64(input) ==
  LET bad == [ok |-> FALSE, err |-> [variant |-> "InvalidInteger"]]
      signed == input # <<>> /\ input[1] \in {43, 45}
      digits == IF signed THEN Tail(input) ELSE input
      neg == signed /\ input[1] = 45
      mag == StripZeros([k \in 1..Len(digits) |-> digits[k] - 48])
  IN  IF digits = <<>> THEN bad
      ELSE IF \E k \in 1..Len(digits) : ~IsDigit(digits[k]) THEN bad
      ELSE IF CmpMag(mag, IF neg THEN I64MinMag ELSE I64MaxMag) > 0 THEN bad
      ELSE [ok |-> TRUE, v |-> Int64(neg, mag)]

\* `len as u32`: the low 32 bits of the two's complement value.
AsU32(v) ==
  LET m == ModMag(v.mag, TwoPow32)
  IN  IF v.neg /\ m # <<>> THEN SubMag(TwoPow32, m) ELSE m

(***************************************************************************)
(* The nom combinators the parser is built from (streaming versions).      *)
(***************************************************************************)
Min(a, b) == IF a < b THEN a ELSE b

\* Compare::compare of the input with a tag
compare(input, t) ==
  IF \E k \in 1..Min(Len(input), Len(t)) : input[k] # t[k] THEN "Error"
  ELSE IF Len(input) >= Len(t) THEN "Ok"
  ELSE "Incomplete"

\* tag of nom::bytes::complete: an input shorter than the tag is an error.
tag_complete(t, input) ==
  LET c == compare(input, t)
  IN  IF c = "Ok" THEN Done(Drop(input, Len(t)), t, <<>>)
      ELSE Failed(from_error_kind(input, "Tag"), <<>>)

tag(t, input) ==
  LET c == compare(input, t)
  IN  IF c = "Ok" THEN Done(Drop(input, Len(t)), t, <<>>)
      ELSE IF c = "Incomplete" THEN Incomplete(Len(t) - Len(input), <<>>)
      ELSE Failed(from_error_kind(input, "Tag"), <<>>)

\* FindSubstring: the index before the first occurrence, or -1 for None
find_substring(input, t) ==
  LET hits == {k \in 0..(Len(input) - Len(t)) : SubSeq(input, k + 1, k + Len(t)) = t}
  IN  IF hits = {} THEN -1 ELSE CHOOSE k \in hits : \A j \in hits : k <= j

\* take_until of nom::bytes::complete: a missing tag is an error.
take_until_complete(t, input) ==
  LET index == find_substring(input, t)
  IN  IF index < 0 THEN Failed(from_error_kind(input, "TakeUntil"), <<>>)
      ELSE Done(Drop(input, index), Take(input, index), <<>>)

take_until(t, input) ==
  LET index == find_substring(input, t)
  IN  IF index < 0 THEN Incomplete(Unknown, <<>>)
      ELSE Done(Drop(input, index), Take(input, index), <<>>)

crlf(input) ==
  LET c == compare(input, CRLF)
  IN  IF c = "Ok" THEN Done(Drop(input, 2), CRLF, <<>>)
      ELSE IF c = "Incomplete" THEN Incomplete(2, <<>>)
      ELSE Failed(from_error_kind(input, "CrLf"), <<>>)

\* map_res(parser, to_str), given the parser's result r on input
map_res_to_str(r, input) ==
  IF r.kind # "Ok" THEN r
  ELSE LET c == to_str(r.value)
       IN  IF c.ok THEN Done(r.rest, c.v, r.printed)
           ELSE Failed(from_external_error(input, "MapRes", c.err), r.printed)

\* map_res(parser, to_i64), given the parser's result r on input
map_res_to_i64(r, input) ==
  IF r.kind # "Ok" THEN r
  ELSE LET c == to_i64(r.value)
       IN  IF c.ok THEN Done(r.rest, c.v, r.printed)
           ELSE Failed(from_external_error(input, "MapRes", c.err), r.printed)

(***************************************************************************)
(* The productions.                                                        *)
(***************************************************************************)
until_crlf(input) ==
  LET a == take_until(CRLF, input)
  IN  IF a.kind # "Ok" THEN a
      ELSE LET b == crlf(a.rest)
           IN  IF b.kind # "Ok" THEN b ELSE Done(b.rest, a.value, <<>>)

prefixed_line(prefix, input) ==
  LET a == tag(prefix, input)
  IN  IF a.kind # "Ok" THEN a ELSE until_crlf(a.rest)

simple_str(input) ==
  LET r == prefixed_line(PLUS, input)
  IN  IF r.kind # "Ok" THEN r ELSE Done(r.rest, Simple(r.value), r.printed)

error(input) ==
  LET r == map_res_to_str(prefixed_line(MINUS, input), input)
  IN  IF r.kind # "Ok" THEN r ELSE Done(r.rest, ErrorMsg(r.value), r.printed)

\* map_res(map_res(prefixed_line(prefix), to_str), to_i64)
line_i64(prefix, input) ==
  map_res_to_i64(map_res_to_str(prefixed_line(prefix, input), input), input)

integer(input) ==
  LET r == line_i64(COLON, input)
  IN  IF r.kind # "Ok" THEN r ELSE Done(r.rest, Integer(r.value), r.printed)

bulk(input) ==
  LET h == line_i64(DOLLAR, input)
  IN  IF h.kind # "Ok" THEN h
      ELSE LET len == h.value
               remaining == h.rest
           IN  IF len = NULL_SENTINEL THEN Done(remaining, Null, <<>>)
               ELSE IF Less(BULK_STRING_MAX, len)
                 THEN Failed(BulkTooLarge(len, BULK_STRING_MAX), <<>>)
               ELSE LET d == until_crlf(remaining)
                    IN  IF d.kind # "Ok" THEN d
                        ELSE Done(d.rest, Bulk(AsU32(len), d.value), <<>>)

RECURSIVE parse(_), array(_), array_loop(_, _, _, _, _)

\* Vec::with_capacity(len as usize) panics when the capacity in bytes exceeds
\* isize::MAX, which every negative len cast to usize does.
capacity_overflow(len) == len.neg

\* array_loop that stops at an element that is Incomplete and keeps what it has.
array_loop_keeps_partial(remaining, i, len, data, printed) ==
  IF ~Less(Int64(FALSE, NatMag(i)), len) THEN Done(remaining, Array(data), printed)
  ELSE LET e == parse(remaining)
           out == printed \o <<i>> \o e.printed
       IN  IF e.kind = "Incomplete" THEN Done(remaining, Array(data), out)
           ELSE IF e.kind # "Ok" THEN [e EXCEPT !.printed = out]
           ELSE array_loop(e.rest, i + 1, len, Append(data, e.value), out)

\* for i in 0..len { println!; let (now_remaining, elem) = parse(remaining)?; ... }
array_loop(remaining, i, len, data, printed) ==
  IF ~Less(Int64(FALSE, NatMag(i)), len) THEN Done(remaining, Array(data), printed)
  ELSE LET e == parse(remaining)
           out == printed \o <<i>> \o e.printed
       IN  IF e.kind # "Ok" THEN [e EXCEPT !.printed = out]
           ELSE array_loop(e.rest, i + 1, len, Append(data, e.value), out)

array(input) ==
  LET h == line_i64(STAR, input)
  IN  IF h.kind # "Ok" THEN h
      ELSE LET len == h.value
           IN  IF len = NULL_SENTINEL THEN Done(h.rest, Null, <<>>)
               ELSE IF capacity_overflow(len) THEN Panicked("capacity overflow", <<>>)
               ELSE array_loop(h.rest, 0, len, <<>>, <<>>)

\* alt that goes on to the next alternative on Incomplete as on Error.
parse_alt_past_incomplete(input) ==
  LET r1 == simple_str(input) IN IF r1.kind \notin {"Error", "Incomplete"} THEN r1 ELSE
  LET r2 == error(input)      IN IF r2.kind \notin {"Error", "Incomplete"} THEN r2 ELSE
  LET r3 == integer(input)    IN IF r3.kind \notin {"Error", "Incomplete"} THEN r3 ELSE
  LET r4 == bulk(input)       IN IF r4.kind \notin {"Error", "Incomplete"} THEN r4 ELSE
  array(input)

\* alt((simple_str, error, integer, bulk, array)): the next alternative is tried
\* on Err::Error only; when all five fail the errors are folded with `or` and
\* passed to `append`.
parse(input) ==
  LET r1 == simple_str(input) IN IF r1.kind # "Error" THEN r1 ELSE
  LET r2 == error(input)      IN IF r2.kind # "Error" THEN r2 ELSE
  LET r3 == integer(input)    IN IF r3.kind # "Error" THEN r3 ELSE
  LET r4 == bulk(input)       IN IF r4.kind # "Error" THEN r4 ELSE
  LET r5 == array(input)      IN IF r5.kind # "Error" THEN r5 ELSE
  Failed(append(input, "Alt", or(or(or(or(r1.err, r2.err), r3.err), r4.err), r5.err)),
         r5.printed)

(***************************************************************************)
(* The wire encoding of a value (spec 4.2, 6): what a sender puts on the   *)
(* wire.  nullAs is the prefix byte the sender writes a Null with.         *)
(***************************************************************************)
DigitBytes(mag) == [k \in 1..Len(mag) |-> mag[k] + 48]

Decimal(i) ==
  (IF i.neg THEN MINUS ELSE <<>>) \o (IF i.mag = <<>> THEN <<48>> ELSE DigitBytes(i.mag))

RECURSIVE Encode(_, _), EncodeAll(_, _)
Encode(v, nullAs) ==
  CASE v.t = "Simple"  -> PLUS \o v.data \o CRLF
    [] v.t = "Error"   -> MINUS \o v.data \o CRLF
    [] v.t = "Integer" -> COLON \o Decimal(v.i) \o CRLF
    [] v.t = "Null"    -> nullAs \o <<45, 49>> \o CRLF
    [] v.t = "Array"   -> STAR \o Decimal(Int64(FALSE, NatMag(Len(v.elems)))) \o CRLF
                               \o EncodeAll(v.elems, nullAs)

EncodeAll(vs, nullAs) ==
  IF vs = <<>> THEN <<>> ELSE Encode(Head(vs), nullAs) \o EncodeAll(Tail(vs), nullAs)

(***************************************************************************)
(* The caller: a buffer, a call of parse, and retries with bytes appended. *)
(*   buf      the buffer handed to parse                                   *)
(*   outcome  what the last call of parse returned                         *)
(*   prev     the kind of outcome of the call before the last append       *)
(*   fed      how many chunks the buffer counts for                        *)
(*   trailed  how many chunks were appended after a final answer           *)
(*   sent     the value whose encoding the buffer started as, if any       *)
(*   tail     the bytes appended since                                     *)
(***************************************************************************)
VARIABLES buf, outcome, prev, fed, trailed, sent, tail

vars == <<buf, outcome, prev, fed, trailed, sent, tail>>

NotCalled == [kind |-> "None"]
NothingSent == [has |-> FALSE]

\* What the caller appends in one step.
Chunks ==
  { PLUS, MINUS, COLON, DOLLAR, STAR, CR, LF, CRLF,
    <<48>>, <<49>>, <<50>>, <<97>>, <<255>> }

\* The buffers a run starts from, with the number of feeds each counts for.
Seeds ==
  { [bytes |-> <<>>, cost |-> 0],
    \* $536870913   $4096000000   $4096000001
    [bytes |-> <<36, 53,51,54,56,55,48,57,49,51>>, cost |-> 2],
    [bytes |-> <<36, 52,48,57,54,48,48,48,48,48,48>>, cost |-> 2],
    [bytes |-> <<36, 52,48,57,54,48,48,48,48,48,49>>, cost |-> 2],
    \* :9223372036854775808   :-9223372036854775809   :1.1
    [bytes |-> <<58, 57,50,50,51,51,55,50,48,51,54,56,53,52,55,55,53,56,48,56>>, cost |-> 2],
    [bytes |-> <<58, 45,57,50,50,51,51,55,50,48,51,54,56,53,52,55,55,53,56,48,57>>, cost |-> 2],
    [bytes |-> <<58, 49,46,49>>, cost |-> 2],
    \* -é, and - with the first byte of é alone
    [bytes |-> <<45, 195,169>>, cost |-> 2],
    [bytes |-> <<45, 195>>, cost |-> 2],
    \* $5 CRLF hello
    [bytes |-> <<36,53,13,10, 104,101,108,108,111>>, cost |-> 3],
    \* *2 CRLF    and    *5 CRLF :1 CRLF :2 CRLF
    [bytes |-> <<42,50,13,10>>, cost |-> 2],
    [bytes |-> <<42,53,13,10, 58,49,13,10, 58,50,13,10>>, cost |-> 3] }

Init ==
  \E s \in Seeds :
    /\ buf = s.bytes
    /\ fed = s.cost
    /\ outcome = NotCalled
    /\ prev = "None"
    /\ trailed = 0
    /\ sent = NothingSent
    /\ tail = <<>>

Call ==
  /\ outcome.kind = "None"
  /\ outcome' = parse(buf)
  /\ prev' = "None"
  /\ UNCHANGED <<buf, fed, trailed, sent, tail>>

\* The retry of the parser's documentation: the new bytes go to the end of the
\* buffer and the whole buffer is parsed again.
Feed(c) ==
  /\ outcome.kind # "None"
  /\ fed < MaxFeeds
  /\ outcome.kind # "Incomplete" => trailed < MaxTrail
  /\ buf' = buf \o c
  /\ tail' = tail \o c
  /\ outcome' = parse(buf')
  /\ prev' = outcome.kind
  /\ fed' = fed + 1
  /\ trailed' = IF outcome.kind # "Incomplete" THEN trailed + 1 ELSE trailed
  /\ UNCHANGED sent

Next == Call \/ \E c \in Chunks : Feed(c)

Spec == Init /\ [][Next]_vars

(***************************************************************************)
(* The same caller, started on the encoding of a value.                    *)
(***************************************************************************)
\* The longest array a sender encodes.
MaxElems == 2

I64Max == Int64(FALSE, I64MaxMag)
I64Min == Int64(TRUE, I64MinMag)

SimpleTexts == { <<>>, <<79, 75>>, <<13>>, <<10>>, <<10, 13>>, <<255>>, <<36, 49>> }
ErrorTexts == { <<>>, <<79, 75>>, <<13>>, <<195, 169>>, <<42, 45, 49>> }
Numbers ==
  { Int64(FALSE, <<>>), Int64(FALSE, <<1>>), Int64(TRUE, <<1>>), Int64(FALSE, <<1, 2>>),
    I64Max, I64Min }

Atoms ==
  {Simple(t) : t \in SimpleTexts} \cup {ErrorMsg(t) : t \in ErrorTexts}
    \cup {Integer(n) : n \in Numbers} \cup {Null}

\* The elements the sender puts into an array.
Elems ==
  { Simple(<<79, 75>>), ErrorMsg(<<13>>), Integer(Int64(FALSE, <<1, 2>>)), Integer(I64Min),
    Null, Array(<<>>), Array(<<Null>>), Array(<<Simple(<<>>), Integer(Int64(TRUE, <<1>>))>>) }

SeqsUpTo(S, n) == UNION { [1..k -> S] : k \in 0..n }

Values == Atoms \cup {Array(es) : es \in SeqsUpTo(Elems, MaxElems)}

InitEnc ==
  \E v \in Values, nullAs \in {DOLLAR, STAR} :
    /\ buf = Encode(v, nullAs)
    /\ fed = MaxFeeds - 2
    /\ outcome = NotCalled
    /\ prev = "None"
    /\ trailed = 0
    /\ sent = [has |-> TRUE, value |-> v, nullAs |-> nullAs]
    /\ tail = <<>>

SpecEnc == InitEnc /\ [][Next]_vars

(***************************************************************************)
(* What the claims speak about.                                            *)
(***************************************************************************)
Called == outcome.kind # "None"

PrefixBytes == {43, 45, 58, 36, 42}

\* The index of the CR of the first CRLF of s, or 0 when s holds none.
LineEnd(s) ==
  LET ends == {k \in 1..(Len(s) - 1) : s[k] = 13 /\ s[k + 1] = 10}
  IN  IF ends = {} THEN 0 ELSE CHOOSE k \in ends : \A j \in ends : k <= j

\* The buffer begins with the byte p and a complete line.
HasHeader(p) == buf # <<>> /\ buf[1] = p /\ LineEnd(buf) > 0
HeaderText == SubSeq(buf, 2, LineEnd(buf) - 1)
AfterHeader == Drop(buf, LineEnd(buf) + 1)
\* The header line is the decimal text of an i64.
NumericHeader(p) == HasHeader(p) /\ Utf8From(HeaderText, 1) /\ to_i64(HeaderText).ok
Declared == to_i64(HeaderText).v

\* The limit the specification names: 512 MiB.
BULK_MAX == Int64(FALSE, <<5,3,6,8,7,0,9,1,2>>)

(***************************************************************************)
(* C1.  When parse returns Bulk{len, data} for a buffer that begins        *)
(* `$<len>\r\n`, data is exactly the <len> bytes after the header line,    *)
(* those bytes are followed by CRLF, len is the declared length and the    *)
(* remainder starts right after that CRLF.                                 *)
(***************************************************************************)
C1_BulkIsDeclaredBytes ==
  (Called /\ HasHeader(36) /\ outcome.kind = "Ok" /\ outcome.value.t = "Bulk") =>
    LET data == outcome.value.data
        n == Len(data)
    IN  /\ NumericHeader(36)
        /\ Declared = Int64(FALSE, NatMag(n))
        /\ outcome.value.len = Declared.mag
        /\ Len(AfterHeader) >= n + 2
        /\ data = Take(AfterHeader, n)
        /\ SubSeq(AfterHeader, n + 1, n + 2) = CRLF
        /\ outcome.rest = Drop(AfterHeader, n + 2)

(***************************************************************************)
(* C2.  A buffer that begins `$<len>\r\n` with len greater than BULK_MAX   *)
(* (536,870,912) is rejected with the BulkTooLarge error, whatever         *)
(* follows the header; no Bulk is returned for such a length.              *)
(***************************************************************************)
C2_OverLimitRejected ==
  (Called /\ NumericHeader(36) /\ Less(BULK_MAX, Declared)) =>
    outcome.kind = "Error" /\ outcome.err.variant = "BulkTooLarge"

C4_IncompleteOrMalformed ==
  (Called /\ buf # <<>>) =>
    /\ (buf[1] \in PrefixBytes /\ LineEnd(buf) = 0) => outcome.kind = "Incomplete"
    /\ buf[1] \notin PrefixBytes => outcome.kind = "Error"

C4_Witness ==
  /\ Called /\ Len(buf) >= 3 /\ buf[1] = 36 /\ LineEnd(buf) = 0
  /\ outcome.kind = "Incomplete"

(***************************************************************************)
(* C5.  A complete `:<text>\r\n` line whose text is no i64 fails with the  *)
(* InvalidInteger error, a complete `-<text>\r\n` line whose text is not   *)
(* UTF-8 with the InvalidStr error; neither with nom's generic error.      *)
(***************************************************************************)
C5_ErrorKindOfCause ==
  /\ (Called /\ HasHeader(58) /\ Utf8From(HeaderText, 1) /\ ~to_i64(HeaderText).ok) =>
       /\ integer(buf).kind = "Error" /\ integer(buf).err.variant = "InvalidInteger"
       /\ outcome.kind = "Error" /\ outcome.err.variant = "InvalidInteger"
  /\ (Called /\ HasHeader(45) /\ ~Utf8From(HeaderText, 1)) =>
       /\ error(buf).kind = "Error" /\ error(buf).err.variant = "InvalidStr"
       /\ outcome.kind = "Error" /\ outcome.err.variant = "InvalidStr"

(***************************************************************************)
(* C6.  parse commits to the production the first byte selects: when that  *)
(* production fails as malformed, parse returns that production's error.   *)
(***************************************************************************)
Selected(input) ==
  CASE input[1] = 43 -> simple_str(input)
    [] input[1] = 45 -> error(input)
    [] input[1] = 58 -> integer(input)
    [] input[1] = 36 -> bulk(input)
    [] input[1] = 42 -> array(input)

C6_CommitsToProduction ==
  (Called /\ buf # <<>> /\ buf[1] \in PrefixBytes /\ Selected(buf).kind = "Error") =>
    outcome.kind = "Error" /\ outcome.err = Selected(buf).err

(***************************************************************************)
(* C7.  For a buffer that begins `*<count>\r\n` with count >= 1, the array *)
(* is parsed element by element; the first element that is not parsed      *)
(* gives its classification to the whole array, and an Array that is       *)
(* returned holds exactly count elements, never fewer.                     *)
(***************************************************************************)
RECURSIVE MagNat(_)
MagNat(mag) == IF mag = <<>> THEN 0 ELSE 10 * MagNat(SubSeq(mag, 1, Len(mag) - 1)) + mag[Len(mag)]

\* The elements one after the other: the values, or the kind of the first failure.
RECURSIVE ElementWise(_, _, _)
ElementWise(rest, k, values) ==
  IF k = 0 THEN [kind |-> "Ok", values |-> values, rest |-> rest]
  ELSE LET e == parse(rest)
       IN  IF e.kind # "Ok" THEN [kind |-> e.kind, values |-> values, rest |-> rest]
           ELSE ElementWise(e.rest, k - 1, Append(values, e.value))

CountedArray == NumericHeader(42) /\ ~Declared.neg /\ Declared.mag # <<>> /\ Len(Declared.mag) <= 6

C8_ParseTotal == Called => outcome.kind \in {"Ok", "Incomplete", "Error"}

(***************************************************************************)
(* C9.  As claimed: a buffer parse reports Incomplete is a prefix of a     *)
(* valid encoding; in particular a buffer whose header line holds          *)
(* non-numeric text after `:`, `$` or `*` and no CRLF yet is not reported  *)
(* Incomplete.                                                             *)
(***************************************************************************)
\* An unterminated header line after `:`, `$` or `*` with a byte no i64 text holds.
NonNumericOpenHeader ==
  /\ buf # <<>> /\ buf[1] \in {58, 36, 42} /\ LineEnd(buf) = 0
  /\ \E k \in 2..Len(buf) : ~IsDigit(buf[k]) /\ buf[k] \notin {43, 45, 13}

C9_IncompleteIsValidPrefix ==
  (Called /\ NonNumericOpenHeader) => outcome.kind # "Incomplete"

\* The buffer up to and including its last CRLF.
RECURSIVE WholeLines(_)
WholeLines(s) ==
  IF LineEnd(s) = 0 THEN <<>>
  ELSE Take(s, LineEnd(s) + 1) \o WholeLines(Drop(s, LineEnd(s) + 1))

(***************************************************************************)
(* C9, amended.  Incomplete says that the input ended before the CRLF of   *)
(* the line the parser is reading (or before a value it still expects),    *)
(* not that the buffer can be completed: when parse is Incomplete on a     *)
(* buffer it is Incomplete on the buffer cut after its last CRLF, and a    *)
(* header line that holds non-numeric text after `:`, `$` or `*` and no    *)
(* CRLF yet is reported Incomplete and is Malformed once its CRLF arrives. *)
(***************************************************************************)
C9_IncompleteIsOpenLine ==
  Called =>
    /\ (outcome.kind = "Incomplete" /\ LineEnd(buf) > 0) =>
         parse(WholeLines(buf)).kind = "Incomplete"
    /\ NonNumericOpenHeader =>
         outcome.kind = "Incomplete" /\ parse(buf \o CRLF).kind = "Error"

C9_Witness ==
  /\ Called /\ NonNumericOpenHeader /\ buf[1] = 42 /\ Len(buf) >= 3
  /\ outcome.kind = "Incomplete"

(***************************************************************************)
(* C10.  Malformed is permanent under appends: when parse is Malformed on  *)
(* a buffer it is Malformed on the buffer with bytes appended; the         *)
(* outcome of a buffer changes only while it is Incomplete.                *)
(***************************************************************************)
C10_MalformedIsPermanent ==
  Called =>
    /\ prev = "Error" => outcome.kind = "Error"
    /\ prev \notin {"None", "Incomplete"} => outcome.kind = prev

C10_Witness ==
  /\ Called /\ prev = "Error" /\ buf[1] = 36 /\ LineEnd(buf) > 0
  /\ LineEnd(buf) + 1 < Len(buf)
====
